---- MODULE Spec2Model ----
(***************************************************************************)
(* Model of the cluster-snapshot builder of src/main.py                    *)
(* (KubernetesQueryAgent.collect_comprehensive_information) and of the     *)
(* file/index store of src/kubernetes_helper.py (KubernetesHelper).        *)
(*                                                                         *)
(* Strings that the code splits, searches, lower-cases or formats are      *)
(* sequences of one-character strings, so that split('-'), `in`, lower()   *)
(* and the f-string keys are computed as Python computes them.  Fields     *)
(* that the code only copies (image, ports, readiness probe, labels,       *)
(* replica counts) are left out of the records.                            *)
(***************************************************************************)
EXTENDS Integers, Sequences, FiniteSets, TLC

VARIABLES
    cluster,          \* what the cluster API answers (fixed during a behaviour)
    pc,               \* position inside collect_comprehensive_information
    cluster_info,     \* the local dict being built (main.py:46)
    all_pods,         \* all_pods.items (main.py:71)
    pod_i,            \* index of the next pod of the loop of main.py:82
    cluster_context,  \* self.cluster_context (main.py:39)
    runs,             \* number of builds returned so far
    files,            \* k8s_data/<kind>.json (kubernetes_helper.py:40)
    index,            \* self.index (kubernetes_helper.py:43)
    index_disk,       \* the persisted index at self.index_path
    gen,              \* generation of the live cluster kubectl reads
    rpc,              \* per refresh call: position in refresh_cluster_data
    rglob,            \* per refresh call: files still to unlink (line 50)
    rkind,            \* per refresh call: index of the next command (line 53)
    rdocs,            \* per refresh call: documents loaded at line 83
    rbefore,          \* per refresh call: the store when the call started (history)
    qpc,              \* position of the search_resources call
    qquery,           \* the query text class of the call
    qcount,           \* number of search_resources calls started
    qobs,             \* what the call has read so far
    qans              \* the answer the call returned

agentVars == <<cluster, pc, cluster_info, all_pods, pod_i, cluster_context, runs>>
helperVars == <<files, index, index_disk, gen, rpc, rglob, rkind, rdocs, rbefore,
                qpc, qquery, qcount, qobs, qans>>
vars == <<cluster, pc, cluster_info, all_pods, pod_i, cluster_context, runs,
          files, index, index_disk, gen, rpc, rglob, rkind, rdocs, rbefore,
          qpc, qquery, qcount, qobs, qans>>

\* ------------------------------------------------------------------------
\* Bounds of the model
MaxPods == 2      \* longest pod listing
MaxSvc == 1       \* longest service listing of one namespace
MaxRuns == 2      \* builds per behaviour
MaxGen == 2       \* cluster generations seen by kubectl
MaxQueries == 2   \* search_resources calls per behaviour

\* ------------------------------------------------------------------------
\* Python string primitives on sequences of characters
None == "None"

UpperCase == <<"A", "B", "C", "D", "E", "F", "G", "H", "I", "J", "K", "L", "M",
               "N", "O", "P", "Q", "R", "S", "T", "U", "V", "W", "X", "Y", "Z">>
LowerCase == <<"a", "b", "c", "d", "e", "f", "g", "h", "i", "j", "k", "l", "m",
               "n", "o", "p", "q", "r", "s", "t", "u", "v", "w", "x", "y", "z">>

\* str.lower() of one character
LowerChar(c) ==
    IF \E k \in 1..Len(UpperCase) : UpperCase[k] = c
    THEN LowerCase[CHOOSE k \in 1..Len(UpperCase) : UpperCase[k] = c]
    ELSE c

\* str.lower()
Lower(s) == [k \in 1..Len(s) |-> LowerChar(s[k])]

\* `t in s` for strings
Contains(s, t) ==
    \E k \in 1..(Len(s) - Len(t) + 1) : SubSeq(s, k, k + Len(t) - 1) = t

\* s.split('-')[0]: the text before the first hyphen
SplitFirst(s) ==
    IF \E k \in 1..Len(s) : s[k] = "-"
    THEN SubSeq(s, 1, (CHOOSE k \in 1..Len(s) :
                          s[k] = "-" /\ \A j \in 1..(k - 1) : s[j] # "-") - 1)
    ELSE s

\* dict[k] = v
Put(d, k, v) == [x \in (DOMAIN d) \cup {k} |-> IF x = k THEN v ELSE d[x]]

EmptyDict == <<>>

Slash == <<"/">>
sHarbor == <<"h", "a", "r", "b", "o", "r">>
sCore == <<"c", "o", "r", "e">>
sHarborCore == <<"h", "a", "r", "b", "o", "r", "-", "c", "o", "r", "e">>
sDatabase == <<"d", "a", "t", "a", "b", "a", "s", "e">>
sDb == <<"d", "b">>
sUnderDb == <<"_", "d", "b">>

\* ------------------------------------------------------------------------
\* The cluster: what the API calls of main.py can return
Namespaces == {"a", "b"}

nWebX == <<"w", "e", "b", "-", "7", "-", "x">>
nWebY == <<"w", "e", "b", "-", "7", "-", "y">>
nMyApp == <<"m", "y", "-", "a", "p", "p", "-", "7", "-", "x">>
nHarborCore == <<"h", "a", "r", "b", "o", "r", "-", "c", "o", "r", "e", "-", "7", "-", "x">>
PodNames == {nWebX, nWebY, nMyApp, nHarborCore}

\* a pod full name is unique in its namespace; each name lives in one namespace
PodNamespace(n) == IF n \in {nWebX, nMyApp} THEN "a" ELSE "b"

cWeb == <<"w", "e", "b">>
cMainDb == <<"M", "a", "i", "n", "D", "B">>
cDatabase == <<"d", "a", "t", "a", "b", "a", "s", "e">>
vData == <<"d", "a", "t", "a">>
vTmp == <<"t", "m", "p">>
eA == <<"A">>
eB == <<"B">>

\* env entries: kind says which of value / configMapKeyRef / secretKeyRef is set
EnvLit(n, v) == [name |-> n, kind |-> "value", value |-> v, ref |-> None, key |-> None]
EnvCm(n, r, k) == [name |-> n, kind |-> "configmap", value |-> None, ref |-> r, key |-> k]
EnvSec(n, r, k) == [name |-> n, kind |-> "secret", value |-> None, ref |-> r, key |-> k]
EnvOther(n) == [name |-> n, kind |-> "other", value |-> None, ref |-> None, key |-> None]

Mount(n, p) == [name |-> n, mount_path |-> p]
Volume(n, pvc) == [name |-> n, persistent_volume_claim |-> pvc]
Container(n, e, m) == [name |-> n, env |-> e, volume_mounts |-> m]

\* pod.spec: None (present = FALSE), or containers and volumes
PodSpec(c, v) == [present |-> TRUE, containers |-> c, volumes |-> v]
NoSpec == [present |-> FALSE, containers |-> <<>>, volumes |-> <<>>]

PodSpecs ==
    { NoSpec,
      PodSpec(<<Container(cWeb, <<EnvLit(eA, "v1"), EnvCm(eB, "cm1", "k")>>, <<>>)>>,
              <<>>),
      PodSpec(<<Container(cWeb, <<EnvSec(eA, "sec1", "k"), EnvCm(eB, "cm2", "k")>>, <<>>)>>,
              <<>>),
      PodSpec(<<Container(cMainDb, <<EnvSec(eB, "sec2", "k"), EnvOther(eA)>>,
                                  <<Mount(vData, "/var/lib")>>),
                        Container(cWeb, <<EnvSec(eA, "sec1", "zz")>>, <<Mount(vTmp, "/tmp")>>)>>,
              <<Volume(vData, TRUE), Volume(vTmp, FALSE)>>),
      PodSpec(<<Container(cWeb, <<>>, <<Mount(vData, "/one")>>),
                        Container(cDatabase, <<>>, <<Mount(vData, "/two")>>)>>,
              <<Volume(vData, TRUE)>>) }

Phases == {"Running", "Failed"}

Pods == { [name |-> n, namespace |-> PodNamespace(n), phase |-> ph, spec |-> sp] :
              n \in PodNames, ph \in Phases, sp \in PodSpecs }

\* sequences of length at most n over S
RECURSIVE SeqsUpTo(_, _)
SeqsUpTo(S, n) ==
    IF n = 0 THEN {<<>>}
    ELSE LET shorter == SeqsUpTo(S, n - 1)
         IN shorter \cup { Append(s, x) : s \in {t \in shorter : Len(t) = n - 1}, x \in S }

\* no element occurs twice
NoRepeat(s) == \A j, k \in DOMAIN s : j # k => s[j] # s[k]

\* pod full names are unique in a listing
PodListings == { s \in SeqsUpTo(Pods, MaxPods) : NoRepeat([k \in DOMAIN s |-> s[k].name]) }

svcUpper == <<"H", "a">>
svcLower == <<"h", "a">>
SvcNames == {svcUpper, svcLower}
SvcListings == { s \in SeqsUpTo(SvcNames, MaxSvc) : NoRepeat(s) }
NsListings == { s \in SeqsUpTo(Namespaces, Cardinality(Namespaces)) : NoRepeat(s) }

\* a list call: it raises, or it returns items
Failed == [fail |-> TRUE, items |-> <<>>]
Listed(s) == [fail |-> FALSE, items |-> s]
ListCalls(S) == {Failed} \cup { Listed(s) : s \in S }

\* the outcome of a single-object read: not found (the call raises), or the
\* object, whose .data is None or a mapping
NotFound == [found |-> FALSE, hasData |-> FALSE, data |-> <<>>]
NoData == [found |-> TRUE, hasData |-> FALSE, data |-> <<>>]
Data(d) == [found |-> TRUE, hasData |-> TRUE, data |-> d]

\* read_namespaced_config_map(name, namespace)
ConfigMapRead(ns, name) ==
    CASE ns = "a" /\ name = "cm1" -> Data([k |-> "v2"])
      [] ns = "b" /\ name = "cm1" -> NoData
      [] ns = "b" /\ name = "cm2" -> Data([other |-> "v9"])
      [] OTHER -> NotFound

\* read_namespaced_secret(name, namespace)
SecretRead(ns, name) ==
    CASE ns = "a" /\ name = "sec1" -> Data([k |-> "djM="])
      [] ns = "b" /\ name = "sec1" -> Data([k |-> "/w=="])
      [] ns = "b" /\ name = "sec2" -> NoData
      [] OTHER -> NotFound

\* base64.b64decode(x).decode('utf-8'): "raise" when the bytes are not UTF-8
B64DecodeUtf8(x) ==
    CASE x = "djM=" -> "v3"
      [] x = "djE=" -> "v1"
      [] OTHER -> "raise"

\* ------------------------------------------------------------------------
\* collect_comprehensive_information (src/main.py)

\* the dict of main.py:46-58; 'pod_status' is no key of it until line 77
FreshInfo ==
    [namespaces |-> <<>>, running_pod_count |-> 0, total_pod_count |-> 0,
     deployments |-> <<>>, services |-> <<>>, secrets |-> <<>>, pods |-> <<>>,
     service_to_namespace |-> EmptyDict, pod_details |-> EmptyDict,
     volume_mounts |-> EmptyDict, pod_env_vars |-> EmptyDict,
     has_pod_status |-> FALSE, pod_status |-> EmptyDict]

\* a variant that keeps building on the dict of the previous call
InitInfoKept == IF cluster_context.set THEN cluster_context.value ELSE FreshInfo

\* cluster_info at the start of a call: a new dict each time
InitInfo == FreshInfo

\* len([pod for pod in items if pod.status.phase == "Running"])
RunningCount(items) == Cardinality({k \in DOMAIN items : items[k].phase = "Running"})

\* {pod.metadata.name.split('-')[0]: pod.status.phase for pod in items}
RECURSIVE PodStatus(_, _)
PodStatus(items, n) ==
    IF n = 0 THEN EmptyDict
    ELSE Put(PodStatus(items, n - 1), SplitFirst(items[n].name), items[n].phase)

\* pod_base_name of main.py:84-88
PodBaseName(name) ==
    IF Contains(name, sHarbor) /\ Contains(name, sCore)
    THEN sHarborCore
    ELSE SplitFirst(name)

\* a variant that stores the empty string for a missing key
ResolveEnvDefault(env, ns) ==
    CASE env.kind = "value" -> env.value
      [] env.kind = "configmap" ->
            LET cm == ConfigMapRead(ns, env.ref)
            IN IF ~cm.found \/ ~cm.hasData THEN None
               ELSE IF env.key \in DOMAIN cm.data THEN cm.data[env.key] ELSE ""
      [] env.kind = "secret" ->
            LET sec == SecretRead(ns, env.ref)
            IN IF ~sec.found \/ ~sec.hasData THEN None
               ELSE IF env.key \in DOMAIN sec.data
                    THEN B64DecodeUtf8(sec.data[env.key])
                    ELSE ""
      [] OTHER -> None

\* env_value of main.py:138-163; every exception of the two reads is caught
\* there and leaves env_value None
ResolveEnv(env, ns) ==
    CASE env.kind = "value" -> env.value
      [] env.kind = "configmap" ->
            LET cm == ConfigMapRead(ns, env.ref)
            IN IF ~cm.found THEN None                 \* the read raises
               ELSE IF ~cm.hasData THEN None          \* None.get raises
               ELSE IF env.key \in DOMAIN cm.data THEN cm.data[env.key] ELSE None
      [] env.kind = "secret" ->
            LET sec == SecretRead(ns, env.ref)
            IN IF ~sec.found THEN None                \* the read raises
               ELSE IF ~sec.hasData THEN None         \* `in None` raises
               ELSE IF env.key \in DOMAIN sec.data
                    THEN LET v == B64DecodeUtf8(sec.data[env.key])
                         IN IF v = "raise" THEN None ELSE v
                    ELSE None
      [] OTHER -> None

\* container_details['env'] after the first n entries (main.py:136-166)
RECURSIVE EnvDict(_, _, _)
EnvDict(envs, ns, n) ==
    IF n = 0 THEN EmptyDict
    ELSE LET d == EnvDict(envs, ns, n - 1)
             v == ResolveEnv(envs[n], ns)
         IN IF v # None THEN Put(d, envs[n].name, v) ELSE d

\* cluster_info['pod_env_vars'] after the first n entries (main.py:167-169)
RECURSIVE EnvVars(_, _, _, _, _, _)
EnvVars(pev, base, cname, envs, ns, n) ==
    IF n = 0 THEN pev
    ELSE LET d == EnvVars(pev, base, cname, envs, ns, n - 1)
             v == ResolveEnv(envs[n], ns)
         IN IF v # None
            THEN Put(d, base \o Slash \o cname \o Slash \o envs[n].name, v)
            ELSE d

\* mount_details of main.py:117-122
MountDetails(m) == [name |-> m.name, mount_path |-> m.mount_path]

\* a variant that keeps a '_db' key that is already set
RECURSIVE MapVolumesKeepFirst(_, _, _, _, _, _)
MapVolumesKeepFirst(vm, base, cname, m, vols, n) ==
    IF n = 0 THEN vm
    ELSE LET d == MapVolumesKeepFirst(vm, base, cname, m, vols, n - 1)
         IN IF vols[n].name = m.name /\ vols[n].persistent_volume_claim
            THEN LET d1 == Put(d, base \o Slash \o cname \o Slash \o m.name,
                               MountDetails(m))
                 IN IF /\ Contains(Lower(cname), sDatabase) \/ Contains(Lower(cname), sDb)
                       /\ (base \o sUnderDb) \notin DOMAIN d1
                    THEN Put(d1, base \o sUnderDb, MountDetails(m))
                    ELSE d1
            ELSE d

\* the loop over pod.spec.volumes for one mount (main.py:126-133)
RECURSIVE MapVolumes(_, _, _, _, _, _)
MapVolumes(vm, base, cname, m, vols, n) ==
    IF n = 0 THEN vm
    ELSE LET d == MapVolumes(vm, base, cname, m, vols, n - 1)
         IN IF vols[n].name = m.name /\ vols[n].persistent_volume_claim
            THEN LET d1 == Put(d, base \o Slash \o cname \o Slash \o m.name,
                               MountDetails(m))
                 IN IF Contains(Lower(cname), sDatabase) \/ Contains(Lower(cname), sDb)
                    THEN Put(d1, base \o sUnderDb, MountDetails(m))
                    ELSE d1
            ELSE d

\* cluster_info['volume_mounts'] after the first n mounts (main.py:115-133)
RECURSIVE MapMounts(_, _, _, _, _, _)
MapMounts(vm, base, cname, mounts, vols, n) ==
    IF n = 0 THEN vm
    ELSE MapVolumes(MapMounts(vm, base, cname, mounts, vols, n - 1),
                    base, cname, mounts[n], vols, Len(vols))

\* container_details of main.py:91-177
ContainerDetails(c, ns) ==
    [name |-> c.name,
     env |-> EnvDict(c.env, ns, Len(c.env)),
     volume_mounts |-> [k \in 1..Len(c.volume_mounts) |-> MountDetails(c.volume_mounts[k])]]

\* one iteration of the loop over pod.spec.containers (main.py:90-181)
ProcessContainer(info, base, pod, c) ==
    [info EXCEPT
        !.volume_mounts = MapMounts(@, base, c.name, c.volume_mounts,
                                    pod.spec.volumes, Len(c.volume_mounts)),
        !.pod_env_vars = EnvVars(@, base, c.name, c.env, pod.namespace, Len(c.env)),
        !.pod_details = Put(@, base \o Slash \o c.name,
                            ContainerDetails(c, pod.namespace))]

RECURSIVE ProcessContainers(_, _, _, _)
ProcessContainers(info, base, pod, n) ==
    IF n = 0 THEN info
    ELSE ProcessContainer(ProcessContainers(info, base, pod, n - 1), base, pod,
                          pod.spec.containers[n])

\* the entry appended at main.py:184-189
PodEntry(pod) ==
    [name |-> PodBaseName(pod.name), full_name |-> pod.name,
     namespace |-> pod.namespace, status |-> pod.phase]

\* the body of the loop of main.py:82-189 for a pod whose spec is present
ProcessPodInfo(info, pod) ==
    LET done == ProcessContainers(info, PodBaseName(pod.name), pod,
                                  Len(pod.spec.containers))
    IN [done EXCEPT !.pods = Append(@, PodEntry(pod))]

\* the services of one namespace (main.py:193-214); a failed list call is
\* caught at line 213 and leaves the dict as it is
RECURSIVE AddServices(_, _, _, _)
AddServices(info, ns, items, n) ==
    IF n = 0 THEN info
    ELSE LET d == AddServices(info, ns, items, n - 1)
         IN [d EXCEPT
                !.service_to_namespace = Put(Put(@, items[n], ns), Lower(items[n]), ns),
                !.services = Append(@, [name |-> items[n], namespace |-> ns])]

\* the loop of main.py:192 over the first n collected namespaces
RECURSIVE CollectServicesInfo(_, _, _)
CollectServicesInfo(info, cl, n) ==
    IF n = 0 THEN info
    ELSE LET d == CollectServicesInfo(info, cl, n - 1)
             call == cl.services[info.namespaces[n]]
         IN IF call.fail THEN d
            ELSE AddServices(d, info.namespaces[n], call.items, Len(call.items))

\* the loop of main.py:217-237 over the first n collected namespaces
RECURSIVE CollectDeploymentsInfo(_, _, _)
CollectDeploymentsInfo(info, cl, n) ==
    IF n = 0 THEN info
    ELSE LET d == CollectDeploymentsInfo(info, cl, n - 1)
             ns == info.namespaces[n]
             call == cl.deployments[ns]
         IN IF call.fail THEN d
            ELSE [d EXCEPT !.deployments =
                     @ \o [k \in 1..Len(call.items) |->
                              [name |-> call.items[k], namespace |-> ns]]]

\* the loop of main.py:240-251 over the first n collected namespaces
RECURSIVE CollectSecretsInfo(_, _, _)
CollectSecretsInfo(info, cl, n) ==
    IF n = 0 THEN info
    ELSE LET d == CollectSecretsInfo(info, cl, n - 1)
             ns == info.namespaces[n]
             call == cl.secrets[ns]
         IN IF call.fail THEN d
            ELSE [d EXCEPT !.secrets =
                     @ \o [k \in 1..Len(call.items) |->
                              [name |-> call.items[k], namespace |-> ns]]]

\* --- the inputs -----------------------------------------------------------
aPod == [name |-> nWebX, namespace |-> "a", phase |-> "Running",
         spec |-> PodSpec(<<Container(cWeb, <<EnvLit(eA, "v1")>>, <<>>)>>, <<>>)]
aPodNoSpec == [name |-> nMyApp, namespace |-> "a", phase |-> "Running", spec |-> NoSpec]
aPodFailed == [name |-> nWebY, namespace |-> "b", phase |-> "Failed",
               spec |-> PodSpec(<<>>, <<>>)]

\* clusters whose pod listing varies
PodClusters ==
    { [namespaces |-> Listed(<<"a", "b">>),
       pods |-> p,
       services |-> [ns \in Namespaces |-> IF ns = "a" THEN Listed(<<svcUpper>>) ELSE Failed],
       deployments |-> [ns \in Namespaces |-> Listed(<<"d1">>)],
       secrets |-> [ns \in Namespaces |-> Listed(<<"s1">>)]] :
      p \in ListCalls(PodListings) }

\* clusters whose namespaces, services, deployments, secrets and failures vary
KindClusters ==
    { [namespaces |-> n, pods |-> p, services |-> sv, deployments |-> d, secrets |-> sc] :
      n \in ListCalls(NsListings),
      p \in {Failed, Listed(<<aPod>>), Listed(<<aPod, aPodNoSpec>>),
             Listed(<<aPodFailed, aPod>>)},
      sv \in [Namespaces -> ListCalls(SvcListings)],
      d \in [Namespaces -> {Failed, Listed(<<"d1">>)}],
      sc \in [Namespaces -> {Failed, Listed(<<"s1">>)}] }

HelperIdle ==
    /\ files = <<>> /\ index = <<>> /\ index_disk = <<>> /\ gen = 0
    /\ rpc = <<>> /\ rglob = <<>> /\ rkind = <<>> /\ rdocs = <<>> /\ rbefore = <<>>
    /\ qpc = "" /\ qquery = "" /\ qcount = 0 /\ qobs = <<>> /\ qans = ""

Init ==
    /\ cluster \in PodClusters \cup KindClusters
    /\ pc = "idle"
    /\ cluster_info = FreshInfo
    /\ all_pods = <<>>
    /\ pod_i = 0
    /\ cluster_context = [set |-> FALSE, value |-> FreshInfo]
    /\ runs = 0
    /\ HelperIdle

\* --- the steps of one call --------------------------------------------------
\* main.py:46: a call starts with its own dict
Start ==
    /\ pc = "idle"
    /\ runs < MaxRuns
    /\ cluster_info' = InitInfo
    /\ all_pods' = <<>>
    /\ pod_i' = 0
    /\ pc' = "namespaces"
    /\ UNCHANGED <<cluster, cluster_context, runs>>
    /\ UNCHANGED helperVars

\* main.py:62-68; a failed list_namespace is caught at line 255
FetchNamespaces ==
    /\ pc = "namespaces"
    /\ IF cluster.namespaces.fail
       THEN /\ pc' = "return"
            /\ UNCHANGED cluster_info
       ELSE /\ cluster_info' = [cluster_info EXCEPT !.namespaces = cluster.namespaces.items]
            /\ pc' = "pods"
    /\ UNCHANGED <<cluster, all_pods, pod_i, cluster_context, runs>>
    /\ UNCHANGED helperVars

\* main.py:71-80; a failed list_pod_for_all_namespaces is caught at line 255
FetchPods ==
    /\ pc = "pods"
    /\ IF cluster.pods.fail
       THEN /\ pc' = "return"
            /\ UNCHANGED <<cluster_info, all_pods, pod_i>>
       ELSE /\ all_pods' = cluster.pods.items
            /\ cluster_info' =
                 [cluster_info EXCEPT
                     !.total_pod_count = Len(cluster.pods.items),
                     !.running_pod_count = RunningCount(cluster.pods.items),
                     !.has_pod_status = TRUE,
                     !.pod_status = PodStatus(cluster.pods.items, Len(cluster.pods.items))]
            /\ pod_i' = 1
            /\ pc' = IF Len(cluster.pods.items) = 0 THEN "services" ELSE "podloop"
    /\ UNCHANGED <<cluster, cluster_context, runs>>
    /\ UNCHANGED helperVars

\* one iteration of main.py:82-189; pod.spec.containers of a pod without spec
\* raises at line 90, which is caught at line 255
ProcessPod ==
    /\ pc = "podloop"
    /\ pod_i <= Len(all_pods)
    /\ IF ~all_pods[pod_i].spec.present
       THEN /\ pc' = "return"
            /\ UNCHANGED <<cluster_info, pod_i>>
       ELSE /\ cluster_info' = ProcessPodInfo(cluster_info, all_pods[pod_i])
            /\ pod_i' = pod_i + 1
            /\ pc' = IF pod_i = Len(all_pods) THEN "services" ELSE "podloop"
    /\ UNCHANGED <<cluster, all_pods, cluster_context, runs>>
    /\ UNCHANGED helperVars

\* main.py:192-214
CollectServices ==
    /\ pc = "services"
    /\ cluster_info' = CollectServicesInfo(cluster_info, cluster, Len(cluster_info.namespaces))
    /\ pc' = "deployments"
    /\ UNCHANGED <<cluster, all_pods, pod_i, cluster_context, runs>>
    /\ UNCHANGED helperVars

\* main.py:217-237
CollectDeployments ==
    /\ pc = "deployments"
    /\ cluster_info' = CollectDeploymentsInfo(cluster_info, cluster, Len(cluster_info.namespaces))
    /\ pc' = "secrets"
    /\ UNCHANGED <<cluster, all_pods, pod_i, cluster_context, runs>>
    /\ UNCHANGED helperVars

\* main.py:240-251
CollectSecrets ==
    /\ pc = "secrets"
    /\ cluster_info' = CollectSecretsInfo(cluster_info, cluster, Len(cluster_info.namespaces))
    /\ pc' = "return"
    /\ UNCHANGED <<cluster, all_pods, pod_i, cluster_context, runs>>
    /\ UNCHANGED helperVars

\* main.py:253 and 257 return cluster_info; main.py:39 stores it
Return ==
    /\ pc = "return"
    /\ cluster_context' = [set |-> TRUE, value |-> cluster_info]
    /\ runs' = runs + 1
    /\ pc' = "idle"
    /\ UNCHANGED <<cluster, cluster_info, all_pods, pod_i>>
    /\ UNCHANGED helperVars

Next ==
    \/ Start
    \/ FetchNamespaces
    \/ FetchPods
    \/ ProcessPod
    \/ CollectServices
    \/ CollectDeployments
    \/ CollectSecrets
    \/ Return

Spec == Init /\ [][Next]_vars

\* ------------------------------------------------------------------------
\* Properties of collect_comprehensive_information

\* the snapshot the last completed call returned
Snapshot == cluster_context.value

\* C3: in every returned snapshot, running_pod_count is the number of Running
\* entries of its 'pods' list and total_pod_count is the length of that list,
\* also when the call returned through the except clause.
C3_CountsMatchPodList ==
    cluster_context.set =>
        /\ Snapshot.total_pod_count = Len(Snapshot.pods)
        /\ Snapshot.running_pod_count =
              Cardinality({k \in DOMAIN Snapshot.pods : Snapshot.pods[k].status = "Running"})

\* every pod of the listing can be processed (none lacks its spec)
PodsWellFormed == \A k \in DOMAIN cluster.pods.items : cluster.pods.items[k].spec.present

\* C4: a failure while fetching one kind does not prevent the fetching of the
\* others: every kind whose own fetch calls succeed has its contribution in the
\* returned snapshot, whichever other kind failed.
C4_OtherKindsStillFetched ==
    cluster_context.set =>
        /\ ~cluster.namespaces.fail => Snapshot.namespaces = cluster.namespaces.items
        /\ (~cluster.pods.fail /\ PodsWellFormed) =>
               Len(Snapshot.pods) = Len(cluster.pods.items)
        /\ ~cluster.namespaces.fail =>
               \A k \in DOMAIN cluster.namespaces.items :
                  LET ns == cluster.namespaces.items[k]
                  IN /\ ~cluster.services[ns].fail =>
                           \A j \in DOMAIN cluster.services[ns].items :
                              \E e \in DOMAIN Snapshot.services :
                                 Snapshot.services[e] =
                                    [name |-> cluster.services[ns].items[j], namespace |-> ns]
                     /\ ~cluster.deployments[ns].fail =>
                           \A j \in DOMAIN cluster.deployments[ns].items :
                              \E e \in DOMAIN Snapshot.deployments :
                                 Snapshot.deployments[e] =
                                    [name |-> cluster.deployments[ns].items[j], namespace |-> ns]
                     /\ ~cluster.secrets[ns].fail =>
                           \A j \in DOMAIN cluster.secrets[ns].items :
                              \E e \in DOMAIN Snapshot.secrets :
                                 Snapshot.secrets[e] =
                                    [name |-> cluster.secrets[ns].items[j], namespace |-> ns]

\* the positions of the hyphens of a name
Hyphens(s) == {k \in 1..Len(s) : s[k] = "-"}

\* <workload> of a name <workload>-<replicaset-hash>-<pod-hash>: the name
\* without its last two hyphen-separated segments
Workload(s) ==
    LET last == CHOOSE k \in Hyphens(s) : \A j \in Hyphens(s) : j <= k
        prev == CHOOSE k \in Hyphens(s) \ {last} : \A j \in Hyphens(s) \ {last} : j <= k
    IN SubSeq(s, 1, prev - 1)

\* C5: the base name of a pod <workload>-<replicaset-hash>-<pod-hash> is
\* <workload>, hyphens of the workload included; the base name of a name that
\* contains both 'harbor' and 'core' is 'harbor-core'.
C5_BaseNameIsWorkload ==
    cluster_context.set =>
        \A k \in DOMAIN Snapshot.pods :
            LET full == Snapshot.pods[k].full_name
            IN IF Contains(full, sHarbor) /\ Contains(full, sCore)
               THEN Snapshot.pods[k].name = sHarborCore
               ELSE Cardinality(Hyphens(full)) >= 2 =>
                       Snapshot.pods[k].name = Workload(full)

\* the reference of an env entry names a ConfigMap or Secret, or a key of
\* it, that does not exist
Dangling(e, ns) ==
    \/ /\ e.kind = "configmap"
       /\ LET cm == ConfigMapRead(ns, e.ref)
          IN ~cm.found \/ ~cm.hasData \/ e.key \notin DOMAIN cm.data
    \/ /\ e.kind = "secret"
       /\ LET sec == SecretRead(ns, e.ref)
          IN ~sec.found \/ ~sec.hasData \/ e.key \notin DOMAIN sec.data

\* every entry of the container named n is dangling
AllDangling(c, n, ns) ==
    \A k \in DOMAIN c.env : c.env[k].name = n => Dangling(c.env[k], ns)

\* the pod the loop of main.py:82 processed last
LastPod == all_pods[pod_i - 1]

\* C6: a variable whose ConfigMap/Secret reference dangles is absent from the
\* env mapping stored in pod_details for its container, and the build goes on:
\* the remaining variables, containers, pods and kinds are all processed.
C6_DanglingEnvAbsent ==
    /\ (pod_i >= 2) =>
          \A j \in DOMAIN LastPod.spec.containers :
             LET c == LastPod.spec.containers[j]
                 key == PodBaseName(LastPod.name) \o Slash \o c.name
             IN /\ key \in DOMAIN cluster_info.pod_details
                /\ \A k \in DOMAIN c.env :
                      LET present == c.env[k].name \in DOMAIN cluster_info.pod_details[key].env
                      IN /\ AllDangling(c, c.env[k].name, LastPod.namespace) => ~present
                         /\ c.env[k].kind = "value" => present
    /\ (pc = "return" /\ ~cluster.namespaces.fail /\ ~cluster.pods.fail /\ PodsWellFormed) =>
          /\ Len(cluster_info.pods) = Len(cluster.pods.items)
          /\ \A k \in DOMAIN cluster.namespaces.items :
                ~cluster.secrets[cluster.namespaces.items[k]].fail =>
                   \E e \in DOMAIN cluster_info.secrets :
                      cluster_info.secrets[e].namespace = cluster.namespaces.items[k]

\* a pod with a dangling reference was processed, a pod after it too, and the
\* call reached its return
C6_Witness ==
    /\ pc = "return"
    /\ Len(cluster_info.pods) = 2
    /\ Len(cluster_info.secrets) = 2
    /\ \E j \in DOMAIN all_pods[1].spec.containers :
          \E k \in DOMAIN all_pods[1].spec.containers[j].env :
             /\ Dangling(all_pods[1].spec.containers[j].env[k], all_pods[1].namespace)
             /\ AllDangling(all_pods[1].spec.containers[j],
                            all_pods[1].spec.containers[j].env[k].name,
                            all_pods[1].namespace)

\* C7: for every collected service, service_to_namespace maps the original
\* name and the lower-cased name to the same namespace.
C7_BothCasesSameNamespace ==
    cluster_context.set =>
        \A k \in DOMAIN Snapshot.services :
            LET n == Snapshot.services[k].name
            IN /\ n \in DOMAIN Snapshot.service_to_namespace
               /\ Lower(n) \in DOMAIN Snapshot.service_to_namespace
               /\ Snapshot.service_to_namespace[n] = Snapshot.service_to_namespace[Lower(n)]

Kinds == <<"namespaces", "pods">>
KindSet == {Kinds[k] : k \in DOMAIN Kinds}
RefreshCalls == {"r1", "r2"}
QueryTexts == {"podcount", "other"}

NoFiles == [k \in KindSet |-> 0]
NoIndex == [built |-> FALSE, docs |-> NoFiles]
Index(d) == [built |-> TRUE, docs |-> d]
StoreNow == [files |-> files, index |-> index, index_disk |-> index_disk]

NoObs == [file |-> -1, idxread |-> FALSE, idx |-> NoIndex]
NoAnswer == [kind |-> "none", pods |-> 0, docs |-> NoFiles]

\* the agent is not running while the helper is exercised
AgentIdle ==
    /\ cluster = [namespaces |-> Failed, pods |-> Failed,
                  services |-> [ns \in Namespaces |-> Failed],
                  deployments |-> [ns \in Namespaces |-> Failed],
                  secrets |-> [ns \in Namespaces |-> Failed]]
    /\ pc = "idle"
    /\ cluster_info = FreshInfo
    /\ all_pods = <<>>
    /\ pod_i = 0
    /\ cluster_context = [set |-> FALSE, value |-> FreshInfo]
    /\ runs = 0

\* kubernetes_helper.py:39-43: an empty data directory and no index
HelperInit ==
    /\ AgentIdle
    /\ files = NoFiles
    /\ index = NoIndex
    /\ index_disk = NoIndex
    /\ gen = 1
    /\ rpc = [t \in RefreshCalls |-> "idle"]
    /\ rglob = [t \in RefreshCalls |-> <<>>]
    /\ rkind = [t \in RefreshCalls |-> 0]
    /\ rdocs = [t \in RefreshCalls |-> NoFiles]
    /\ rbefore = [t \in RefreshCalls |-> [files |-> NoFiles, index |-> NoIndex,
                                          index_disk |-> NoIndex]]
    /\ qpc = "idle"
    /\ qquery = "none"
    /\ qcount = 0
    /\ qobs = NoObs
    /\ qans = NoAnswer

\* the kinds that have a file, in the order of Kinds
ExistingFiles(f) == SelectSeq(Kinds, LAMBDA k : f[k] # 0)

\* the live cluster changes between two kubectl calls
ClusterChange ==
    /\ gen < MaxGen
    /\ gen' = gen + 1
    /\ UNCHANGED <<files, index, index_disk, rpc, rglob, rkind, rdocs, rbefore,
                   qpc, qquery, qcount, qobs, qans>>
    /\ UNCHANGED agentVars

\* kubernetes_helper.py:47-50: the call starts and globs k8s_data/*.json; no
\* lock is taken, so a call may start while another one is running
RStart(t) ==
    /\ rpc[t] = "idle"
    /\ rglob' = [rglob EXCEPT ![t] = ExistingFiles(files)]
    /\ rbefore' = [rbefore EXCEPT ![t] = StoreNow]
    /\ rkind' = [rkind EXCEPT ![t] = 1]
    /\ rpc' = [rpc EXCEPT ![t] = IF ExistingFiles(files) = <<>> THEN "fetch" ELSE "clear"]
    /\ UNCHANGED <<files, index, index_disk, gen, rdocs, qpc, qquery, qcount, qobs, qans>>
    /\ UNCHANGED agentVars

\* kubernetes_helper.py:51: file.unlink(); it raises FileNotFoundError, out of
\* refresh_cluster_data, when the file is gone already
RUnlink(t) ==
    /\ rpc[t] = "clear"
    /\ LET k == Head(rglob[t])
       IN IF files[k] = 0
          THEN /\ rpc' = [rpc EXCEPT ![t] = "failed"]
               /\ UNCHANGED <<files, rglob>>
          ELSE /\ files' = [files EXCEPT ![k] = 0]
               /\ rglob' = [rglob EXCEPT ![t] = Tail(@)]
               /\ rpc' = [rpc EXCEPT ![t] = IF Tail(rglob[t]) = <<>> THEN "fetch" ELSE "clear"]
    /\ UNCHANGED <<index, index_disk, gen, rkind, rdocs, rbefore,
                   qpc, qquery, qcount, qobs, qans>>
    /\ UNCHANGED agentVars

\* kubernetes_helper.py:53-78, one command: kubectl succeeds and the file is
\* written, or it fails and the error is logged
RFetch(t) ==
    /\ rpc[t] = "fetch"
    /\ \E ok \in BOOLEAN :
          files' = IF ok THEN [files EXCEPT ![Kinds[rkind[t]]] = gen] ELSE files
    /\ rkind' = [rkind EXCEPT ![t] = @ + 1]
    /\ rpc' = [rpc EXCEPT ![t] = IF rkind[t] = Len(Kinds) THEN "load" ELSE "fetch"]
    /\ UNCHANGED <<index, index_disk, gen, rglob, rdocs, rbefore,
                   qpc, qquery, qcount, qobs, qans>>
    /\ UNCHANGED agentVars

\* kubernetes_helper.py:83: SimpleDirectoryReader(...).load_data(); it raises
\* on an empty directory, and line 94 re-raises
RLoad(t) ==
    /\ rpc[t] = "load"
    /\ IF files = NoFiles
       THEN /\ rpc' = [rpc EXCEPT ![t] = "failed"]
            /\ UNCHANGED rdocs
       ELSE /\ rdocs' = [rdocs EXCEPT ![t] = files]
            /\ rpc' = [rpc EXCEPT ![t] = "index"]
    /\ UNCHANGED <<files, index, index_disk, gen, rglob, rkind, rbefore,
                   qpc, qquery, qcount, qobs, qans>>
    /\ UNCHANGED agentVars

\* kubernetes_helper.py:84-94: the index is built (an embedding call that may
\* fail), assigned to self.index and persisted; a failure is re-raised
RIndex(t) ==
    /\ rpc[t] = "index"
    /\ \E ok \in BOOLEAN :
          IF ok
          THEN /\ index' = Index(rdocs[t])
               /\ index_disk' = Index(rdocs[t])
               /\ rpc' = [rpc EXCEPT ![t] = "done"]
          ELSE /\ rpc' = [rpc EXCEPT ![t] = "failed"]
               /\ UNCHANGED <<index, index_disk>>
    /\ UNCHANGED <<files, gen, rglob, rkind, rdocs, rbefore,
                   qpc, qquery, qcount, qobs, qans>>
    /\ UNCHANGED agentVars

\* kubernetes_helper.py:96-100: a call of search_resources starts
QStart(q) ==
    /\ qpc \in {"idle", "done"}
    /\ qcount < MaxQueries
    /\ qcount' = qcount + 1
    /\ qquery' = q
    /\ qobs' = NoObs
    /\ qans' = NoAnswer
    /\ qpc' = IF q = "podcount" THEN "exists" ELSE "index"
    /\ UNCHANGED <<files, index, index_disk, gen, rpc, rglob, rkind, rdocs, rbefore>>
    /\ UNCHANGED agentVars

\* kubernetes_helper.py:102-103: pods_file.exists()
QCheckFile ==
    /\ qpc = "exists"
    /\ IF files["pods"] = 0
       THEN /\ qobs' = [qobs EXCEPT !.file = 0]
            /\ qpc' = "index"
       ELSE /\ qpc' = "read"
            /\ UNCHANGED qobs
    /\ UNCHANGED <<files, index, index_disk, gen, rpc, rglob, rkind, rdocs, rbefore,
                   qquery, qcount, qans>>
    /\ UNCHANGED agentVars

\* kubernetes_helper.py:104-109: the file is opened and counted; open() of a
\* file deleted meanwhile raises, caught at line 144
QReadFile ==
    /\ qpc = "read"
    /\ IF files["pods"] = 0
       THEN /\ qans' = [kind |-> "error", pods |-> 0, docs |-> NoFiles]
            /\ qobs' = [qobs EXCEPT !.file = 0]
       ELSE /\ qans' = [kind |-> "file", pods |-> files["pods"], docs |-> NoFiles]
            /\ qobs' = [qobs EXCEPT !.file = files["pods"]]
    /\ qpc' = "done"
    /\ UNCHANGED <<files, index, index_disk, gen, rpc, rglob, rkind, rdocs, rbefore,
                   qquery, qcount>>
    /\ UNCHANGED agentVars

\* kubernetes_helper.py:112-142: the index in memory, else the persisted one,
\* else the "refresh first" answer
QIndex ==
    /\ qpc = "index"
    /\ IF index.built
       THEN /\ qans' = [kind |-> "index", pods |-> 0, docs |-> index.docs]
            /\ qobs' = [qobs EXCEPT !.idxread = TRUE, !.idx = index]
            /\ UNCHANGED index
       ELSE IF index_disk.built
       THEN /\ index' = index_disk
            /\ qans' = [kind |-> "index", pods |-> 0, docs |-> index_disk.docs]
            /\ qobs' = [qobs EXCEPT !.idxread = TRUE, !.idx = index_disk]
       ELSE /\ qans' = [kind |-> "nodata", pods |-> 0, docs |-> NoFiles]
            /\ qobs' = [qobs EXCEPT !.idxread = TRUE, !.idx = NoIndex]
            /\ UNCHANGED index
    /\ qpc' = "done"
    /\ UNCHANGED <<files, index_disk, gen, rpc, rglob, rkind, rdocs, rbefore,
                   qquery, qcount>>
    /\ UNCHANGED agentVars

HelperNext ==
    \/ ClusterChange
    \/ \E t \in RefreshCalls : RStart(t)
    \/ \E t \in RefreshCalls : RUnlink(t)
    \/ \E t \in RefreshCalls : RFetch(t)
    \/ \E t \in RefreshCalls : RLoad(t)
    \/ \E t \in RefreshCalls : RIndex(t)
    \/ \E q \in QueryTexts : QStart(q)
    \/ QCheckFile
    \/ QReadFile
    \/ QIndex

HelperSpec == HelperInit /\ [][HelperNext]_vars

\* ------------------------------------------------------------------------
\* Properties of KubernetesHelper

Running(t) == rpc[t] \in {"clear", "fetch", "load", "index"}

\* C1: a query concurrent with a refresh never observes a mix: what it saw of
\* the data files agrees with the index it saw (no deleted or new pods file
\* together with an index built from another pods file).
C1_QuerySeesOneSnapshot ==
    (qpc = "done" /\ qobs.file # -1 /\ qobs.idxread) =>
        qobs.idx.docs["pods"] = qobs.file

\* C2: after a refresh that failed, the store (data files, index in memory,
\* persisted index) is what it was when that refresh started, so queries are
\* answered from the previously published snapshot.
C2_FailedRefreshKeepsPrevious ==
    \A t \in RefreshCalls :
        (rpc[t] = "failed" /\ \A u \in RefreshCalls \ {t} : rpc[u] = "idle") =>
            StoreNow = rbefore[t]

\* C8: two refreshes never interleave: at most one refresh_cluster_data call
\* is between its first and its last step.
C8_RefreshesDoNotInterleave ==
    Cardinality({t \in RefreshCalls : Running(t)}) <= 1

\* C9: as long as no refresh has completed, a finished query was answered with
\* the "no data available, refresh first" condition.
C9_NoDataBeforeFirstPublish ==
    (qpc = "done" /\ \A t \in RefreshCalls : rpc[t] # "done") => qans.kind = "nodata"

\* ------------------------------------------------------------------------
\* Properties of the derived indices of collect_comprehensive_information

\* the number of pods the loop of main.py:82 has fully processed
Processed == IF pod_i = 0 THEN 0 ELSE pod_i - 1

\* the container name suggests a database
DbLike(cname) == Contains(Lower(cname), sDatabase) \/ Contains(Lower(cname), sDb)

\* <<pod, container, mount>> positions, among the processed pods of base name
\* base, of the claim-backed mounts of database-like containers
DbMounts(base) ==
    UNION { UNION { { <<i, j, k>> : k \in
                        { k \in DOMAIN all_pods[i].spec.containers[j].volume_mounts :
                             \E v \in DOMAIN all_pods[i].spec.volumes :
                                /\ all_pods[i].spec.volumes[v].name =
                                      all_pods[i].spec.containers[j].volume_mounts[k].name
                                /\ all_pods[i].spec.volumes[v].persistent_volume_claim } } :
                    j \in { j \in DOMAIN all_pods[i].spec.containers :
                               DbLike(all_pods[i].spec.containers[j].name) } } :
            i \in { i \in 1..Processed : PodBaseName(all_pods[i].name) = base } }

\* iteration order over pods, then containers, then mounts
Earlier(x, y) ==
    \/ x[1] < y[1]
    \/ x[1] = y[1] /\ x[2] < y[2]
    \/ x[1] = y[1] /\ x[2] = y[2] /\ x[3] <= y[3]

FirstOf(S) == CHOOSE x \in S : \A y \in S : Earlier(x, y)
LastOf(S) == CHOOSE x \in S : \A y \in S : Earlier(y, x)
MountAt(x) == [name |-> all_pods[x[1]].spec.containers[x[2]].volume_mounts[x[3]].name,
               mount_path |->
                   all_pods[x[1]].spec.containers[x[2]].volume_mounts[x[3]].mount_path]

ProcessedBases == { PodBaseName(all_pods[i].name) : i \in 1..Processed }

\* C11 as stated: the '{pod_base_name}_db' key holds the mount of the first
\* matching container in iteration order; a later match does not overwrite it.
C11_FirstDbMountWins ==
    \A base \in ProcessedBases :
        DbMounts(base) # {} =>
            /\ (base \o sUnderDb) \in DOMAIN cluster_info.volume_mounts
            /\ cluster_info.volume_mounts[base \o sUnderDb] = MountAt(FirstOf(DbMounts(base)))

\* C11 as amended: in the snapshot a call is about to return, the
\* '{pod_base_name}_db' key holds the mount of the last matching container in
\* iteration order; every later match overwrites it.
C11_LastDbMountWins ==
    pc = "return" =>
        \A base \in ProcessedBases :
            LET S == DbMounts(base)
                key == base \o sUnderDb
            IN IF S = {}
               THEN key \notin DOMAIN cluster_info.volume_mounts
               ELSE /\ key \in DOMAIN cluster_info.volume_mounts
                    /\ cluster_info.volume_mounts[key] = MountAt(LastOf(S))

\* two pods of one base name, each with a matching container, with different
\* mounts, have been processed and the call is about to return
C11_Witness ==
    /\ pc = "return"
    /\ \E base \in ProcessedBases :
          \E x, y \in DbMounts(base) : x[1] # y[1] /\ MountAt(x) # MountAt(y)

\* the pod of the listing with full name n
ListedPod(n) == cluster.pods.items[CHOOSE k \in DOMAIN cluster.pods.items :
                                      cluster.pods.items[k].name = n]

\* some key of dict d starts with prefix
HasKeyWithPrefix(d, prefix) ==
    \E key \in DOMAIN d : Len(key) >= Len(prefix) /\ SubSeq(key, 1, Len(prefix)) = prefix

\* C12: every index of a snapshot uses the same base name for a pod: the phase
\* of each pod of the 'pods' list is stored in pod_status under the 'name' of
\* its entry, and that name is the pod prefix of its pod_details keys.
C12_OneBaseNamePerPod ==
    cluster_context.set =>
        \A k \in DOMAIN Snapshot.pods :
            LET entry == Snapshot.pods[k]
                pod == ListedPod(entry.full_name)
            IN /\ entry.name \in DOMAIN Snapshot.pod_status
               /\ \A j \in DOMAIN pod.spec.containers :
                     (entry.name \o Slash \o pod.spec.containers[j].name)
                        \in DOMAIN Snapshot.pod_details
               /\ \A j \in DOMAIN pod.spec.containers :
                     Snapshot.pod_details[entry.name \o Slash \o pod.spec.containers[j].name].env
                           # EmptyDict =>
                        HasKeyWithPrefix(Snapshot.pod_env_vars,
                            entry.name \o Slash \o pod.spec.containers[j].name \o Slash)

\* C13: the two environment indices agree: pod_env_vars maps
\* '{base}/{container}/{env}' to v exactly if pod_details['{base}/{container}']
\* has env[env] = v.
C13_EnvIndicesAgree ==
    cluster_context.set =>
        /\ \A dk \in DOMAIN Snapshot.pod_details :
              \A n \in DOMAIN Snapshot.pod_details[dk].env :
                 /\ (dk \o Slash \o n) \in DOMAIN Snapshot.pod_env_vars
                 /\ Snapshot.pod_env_vars[dk \o Slash \o n] = Snapshot.pod_details[dk].env[n]
        /\ \A ek \in DOMAIN Snapshot.pod_env_vars :
              \E dk \in DOMAIN Snapshot.pod_details :
                 \E n \in DOMAIN Snapshot.pod_details[dk].env :
                    /\ ek = dk \o Slash \o n
                    /\ Snapshot.pod_env_vars[ek] = Snapshot.pod_details[dk].env[n]
====
